---- MODULE Spec2Model ----
(***************************************************************************)
(* Model of src/ExpenseScreen.js: the ExpenseScreen component, its form    *)
(* state, its command handlers, the expenses table they write through      *)
(* expo-sqlite, and the filter / aggregation memos derived from the list.  *)
(*                                                                         *)
(* Strings are sequences of one-character strings, so that parseFloat,     *)
(* trim, toISOString().slice(0, 10) and new Date(text) are computed and    *)
(* not assumed.  Amounts are integers: no amount typed has a ".".          *)
(* Time is counted in hours since 1970-01-01T00:00Z; the device's time     *)
(* zone is a fixed offset in hours (local = UTC + tz).                     *)
(*                                                                         *)
(* A storage call is issued by a handler and settles later: the statement  *)
(* takes effect on the table and the handler resumes after its await in    *)
(* one step.  Handlers run without interruption between awaits.            *)
(***************************************************************************)
EXTENDS Integers, Sequences, FiniteSets, TLC

VARIABLES
    schema,            \* the expenses table exists (CREATE TABLE IF NOT EXISTS ran)
    storage,           \* the rows of the expenses table
    nextId,            \* the next AUTOINCREMENT id
    pending,           \* storage calls issued and not yet settled, in issue order
    expenses,          \* useState([]): the in-memory list
    amount,            \* useState(''): the amount field
    category,          \* useState(''): the category field
    note,              \* useState(''): the note field
    filter,            \* useState('All'): the selector
    editingId,         \* useState(null): the remembered id, 0 for null
    filteredExpenses,  \* the useMemo over [expenses, filter]
    now,               \* the device clock, hours since the epoch (UTC)
    tz                 \* the device's offset from UTC, hours

vars == <<schema, storage, nextId, pending, expenses, amount, category, note,
          filter, editingId, filteredExpenses, now, tz>>

(***************************************************************************)
(* Bounds of the model.                                                    *)
(***************************************************************************)
MaxRows == 2
MaxPending == 2
MaxTicks == 2

(***************************************************************************)
(* Strings.                                                                *)
(***************************************************************************)
DigitChars == <<"0", "1", "2", "3", "4", "5", "6", "7", "8", "9">>

IsDigit(c) == \E i \in 1..10 : DigitChars[i] = c

DigitVal(c) == (CHOOSE i \in 1..10 : DigitChars[i] = c) - 1

IsSpace(c) == c = " "

\* String.prototype.trim
RECURSIVE TrimStart(_)
TrimStart(s) ==
    IF s # <<>> /\ IsSpace(Head(s)) THEN TrimStart(Tail(s)) ELSE s

RECURSIVE TrimEnd(_)
TrimEnd(s) ==
    IF s # <<>> /\ IsSpace(s[Len(s)]) THEN TrimEnd(SubSeq(s, 1, Len(s) - 1)) ELSE s

Trim(s) == TrimEnd(TrimStart(s))

\* The longest prefix of s made of decimal digits.
RECURSIVE DigitPrefix(_)
DigitPrefix(s) ==
    IF s # <<>> /\ IsDigit(Head(s)) THEN <<Head(s)>> \o DigitPrefix(Tail(s)) ELSE <<>>

RECURSIVE DigitsValue(_)
DigitsValue(s) ==
    IF s = <<>> THEN 0
    ELSE 10 * DigitsValue(SubSeq(s, 1, Len(s) - 1)) + DigitVal(s[Len(s)])

\* parseFloat on the alphabet of digits, signs, blanks and other characters:
\* leading blanks are skipped, one sign is accepted, the longest run of
\* digits is read and whatever follows is ignored; no digit gives NaN.
ParseFloat(s) ==
    LET t        == TrimStart(s)
        signed   == t # <<>> /\ Head(t) \in {"-", "+"}
        negative == signed /\ Head(t) = "-"
        body     == IF signed THEN Tail(t) ELSE t
        digits   == DigitPrefix(body)
    IN  IF digits = <<>> THEN [nan |-> TRUE, val |-> 0]
        ELSE [nan |-> FALSE,
              val |-> IF negative THEN 0 - DigitsValue(digits) ELSE DigitsValue(digits)]

\* String(n) for an integer n.
RECURSIVE NatToString(_)
NatToString(n) ==
    IF n < 10 THEN <<DigitChars[n + 1]>>
    ELSE NatToString(n \div 10) \o <<DigitChars[(n % 10) + 1]>>

NumberToString(n) == IF n < 0 THEN <<"-">> \o NatToString(0 - n) ELSE NatToString(n)

\* Zero-padded decimal of width w.
RECURSIVE Pad(_, _)
Pad(n, w) == IF w = 0 THEN <<>> ELSE Pad(n \div 10, w - 1) \o <<DigitChars[(n % 10) + 1]>>

\* Lexicographic order on strings of digits and "-" by character code
\* ("-" sorts before the digits), as SQLite's BINARY collation compares TEXT.
CharCode(c) == IF IsDigit(c) THEN 48 + DigitVal(c) ELSE 45

RECURSIVE StrLess(_, _)
StrLess(a, b) ==
    IF b = <<>> THEN FALSE
    ELSE IF a = <<>> THEN TRUE
    ELSE IF CharCode(Head(a)) # CharCode(Head(b)) THEN CharCode(Head(a)) < CharCode(Head(b))
    ELSE StrLess(Tail(a), Tail(b))

(***************************************************************************)
(* The calendar of Date: days since 1970-01-01 <-> (year, month, day).     *)
(***************************************************************************)
DaysFromCivil(y, m, d) ==
    LET yy  == IF m <= 2 THEN y - 1 ELSE y
        era == yy \div 400
        yoe == yy - era * 400
        mp  == IF m > 2 THEN m - 3 ELSE m + 9
        doy == (153 * mp + 2) \div 5 + d - 1
        doe == yoe * 365 + yoe \div 4 - yoe \div 100 + doy
    IN  era * 146097 + doe - 719468

CivilFromDays(z0) ==
    LET z   == z0 + 719468
        era == z \div 146097
        doe == z - era * 146097
        yoe == (doe - doe \div 1460 + doe \div 36524 - doe \div 146096) \div 365
        doy == doe - (365 * yoe + yoe \div 4 - yoe \div 100)
        mp  == (5 * doy + 2) \div 153
        d   == doy - (153 * mp + 2) \div 5 + 1
        m   == IF mp < 10 THEN mp + 3 ELSE mp - 9
        y   == yoe + era * 400 + (IF m <= 2 THEN 1 ELSE 0)
    IN  [year |-> y, month |-> m, day |-> d]

\* Date.prototype.getDay of a day number: 0 is Sunday.
WeekDay(days) == (days + 4) % 7

\* The UTC and the local day number of an instant.
UtcDay(t) == t \div 24
LocalDay(t, zone) == (t + zone) \div 24

\* The instant of local midnight of a local day: setHours(0, 0, 0, 0).
LocalMidnight(day, zone) == day * 24 - zone

\* toISOString().slice(0, 10) of an instant: the UTC date as YYYY-MM-DD.
IsoDate(t) ==
    LET c == CivilFromDays(UtcDay(t))
    IN  Pad(c.year, 4) \o <<"-">> \o Pad(c.month, 2) \o <<"-">> \o Pad(c.day, 2)

\* new Date("YYYY-MM-DD"): a date-only form is read as UTC midnight.
ParseIsoDate(s) ==
    DaysFromCivil(DigitsValue(SubSeq(s, 1, 4)),
                  DigitsValue(SubSeq(s, 6, 7)),
                  DigitsValue(SubSeq(s, 9, 10))) * 24

(***************************************************************************)
(* The expenses table.  A row is [id, amount, category, note, date]; the   *)
(* nullable note column is <<>> for NULL and <<text>> otherwise.           *)
(***************************************************************************)
Null == <<>>

Ids(rows) == {r.id : r \in rows}

\* ORDER BY id DESC, the date left out of the ordering.
RowBeforeIdOnly(a, b) == a.id > b.id

\* ORDER BY date DESC, id DESC: a comes before b.
RowBefore(a, b) == StrLess(b.date, a.date) \/ (a.date = b.date /\ a.id > b.id)

\* SELECT * FROM expenses ORDER BY date DESC, id DESC
RECURSIVE ListAll(_)
ListAll(rows) ==
    IF rows = {} THEN <<>>
    ELSE LET first == CHOOSE r \in rows : \A o \in rows \ {r} : RowBefore(r, o)
         IN  <<first>> \o ListAll(rows \ {first})

\* INSERT INTO expenses (amount, category, note, date) VALUES (?, ?, ?, ?)
InsertRow(rows, id, c) ==
    rows \cup {[id |-> id, amount |-> c.amount, category |-> c.category,
                note |-> c.note, date |-> c.date]}

\* INSERT OR REPLACE in the place of UPDATE: an id not in the table gets a row.
UpdateRowUpsert(rows, c) ==
    {r \in rows : r.id # c.id} \cup
        {[id |-> c.id, amount |-> c.amount, category |-> c.category,
          note |-> c.note, date |-> <<>>]}

\* An UPDATE whose WHERE clause is missing.
UpdateRowAll(rows, c) ==
    {[r EXCEPT !.amount = c.amount, !.category = c.category, !.note = c.note] : r \in rows}

\* UPDATE expenses SET amount = ?, category = ?, note = ? WHERE id = ?
UpdateRow(rows, c) ==
    {IF r.id = c.id
     THEN [r EXCEPT !.amount = c.amount, !.category = c.category, !.note = c.note]
     ELSE r : r \in rows}

\* DELETE FROM expenses WHERE id = ?
DeleteRow(rows, id) == {r \in rows : r.id # id}

(***************************************************************************)
(* Storage calls in flight.  Every call carries the parameters bound to    *)
(* its statement; fields a statement does not use are left at their zero.  *)
(***************************************************************************)
Call(op, id, amt, cat, nt, dt) ==
    [op |-> op, id |-> id, amount |-> amt, category |-> cat, note |-> nt, date |-> dt]

ExecCall == Call("exec", 0, 0, <<>>, Null, <<>>)
QueryCall == Call("query", 0, 0, <<>>, Null, <<>>)
DeleteCall(id) == Call("delete", id, 0, <<>>, Null, <<>>)

RemoveAt(q, i) == SubSeq(q, 1, i - 1) \o SubSeq(q, i + 1, Len(q))

\* loadExpenses up to its await: the SELECT is issued.
LoadExpenses(q) == Append(q, QueryCall)

(***************************************************************************)
(* The filter memo: filteredExpenses as a function of its inputs and of    *)
(* the clock it reads.                                                     *)
(***************************************************************************)
InMonth(e, t, zone) ==
    LET today == CivilFromDays(LocalDay(t, zone))
        d     == CivilFromDays(LocalDay(ParseIsoDate(e.date), zone))
    IN  /\ e.date # <<>>
        /\ d.year = today.year
        /\ d.month = today.month

InWeek(e, t, zone) ==
    LET today        == LocalDay(t, zone)
        diffToMonday == (WeekDay(today) + 6) % 7
        startOfWeek  == LocalMidnight(today - diffToMonday, zone)
        \* setHours(23, 59, 59, 999) on the sixth day after: its last hour
        endOfWeek    == LocalMidnight(today - diffToMonday + 6, zone) + 23
        d            == LocalMidnight(LocalDay(ParseIsoDate(e.date), zone), zone)
    IN  /\ e.date # <<>>
        /\ d >= startOfWeek
        /\ d <= endOfWeek

FilterExpenses(list, f, t, zone) ==
    IF f = "All" THEN list
    ELSE IF f = "Month" THEN SelectSeq(list, LAMBDA e : InMonth(e, t, zone))
    ELSE IF f = "Week" THEN SelectSeq(list, LAMBDA e : InWeek(e, t, zone))
    ELSE list

(***************************************************************************)
(* The category memo: categoryTotals over the filtered list.  `totals` is  *)
(* a plain object, so a key it does not own is looked up on                *)
(* Object.prototype: for such a key `!totals[cat]` is false, the entry is  *)
(* not initialised, and `+=` appends the amount to the inherited value's   *)
(* text.  Assigning a string to __proto__ sets nothing.  A value is        *)
(* [num, val]: the number val, or (num = FALSE) a string.                  *)
(***************************************************************************)
Uncategorized ==
    <<"U", "n", "c", "a", "t", "e", "g", "o", "r", "i", "z", "e", "d">>

ProtoKey == <<"_", "_", "p", "r", "o", "t", "o", "_", "_">>

ObjectPrototypeKeys ==
    { <<"c", "o", "n", "s", "t", "r", "u", "c", "t", "o", "r">>,
      <<"t", "o", "S", "t", "r", "i", "n", "g">>,
      <<"v", "a", "l", "u", "e", "O", "f">>,
      ProtoKey }

NoTotals == [k \in {} |-> [num |-> TRUE, val |-> 0]]

AddToTotals(totals, e) ==
    LET cat == IF e.category = <<>> THEN Uncategorized ELSE e.category
        amt == e.amount
    IN  IF cat \in DOMAIN totals
        THEN IF totals[cat].num
             THEN [totals EXCEPT ![cat] = [num |-> TRUE, val |-> @.val + amt]]
             ELSE totals
        ELSE IF cat \in ObjectPrototypeKeys
        THEN IF cat = ProtoKey
             THEN totals
             ELSE totals @@ (cat :> [num |-> FALSE, val |-> 0])
        ELSE totals @@ (cat :> [num |-> TRUE, val |-> amt])

RECURSIVE TotalsFrom(_, _)
TotalsFrom(list, totals) ==
    IF list = <<>> THEN totals
    ELSE TotalsFrom(Tail(list), AddToTotals(totals, Head(list)))

CategoryTotals(list) == TotalsFrom(list, NoTotals)

(***************************************************************************)
(* The validation gate of addExpense and saveEdit.                         *)
(***************************************************************************)
\* A gate that checks isNaN and not the sign.
AmountRejectedNaNOnly(s) == ParseFloat(s).nan

AmountRejected(s) == ParseFloat(s).nan \/ ParseFloat(s).val <= 0

\* A gate that tests the category before trimming it.
CategoryRejectedUntrimmed(s) == s = <<>>

CategoryRejected(s) == Trim(s) = <<>>

\* trimmedNote || null
NoteParam(s) == IF Trim(s) = <<>> THEN Null ELSE <<Trim(s)>>

\* The model stops issuing calls at MaxPending outstanding ones.
CanIssue == Len(pending) < MaxPending

\* The model stops inserting at MaxRows ids, counting inserts in flight.
CanInsert ==
    nextId + Cardinality({i \in 1..Len(pending) : pending[i].op = "insert"}) <= MaxRows

StoreUnchanged == UNCHANGED <<schema, storage, nextId>>
ClockUnchanged == UNCHANGED <<now, tz>>
FormUnchanged == UNCHANGED <<amount, category, note>>
ListUnchanged == UNCHANGED <<expenses, filter, filteredExpenses>>

(***************************************************************************)
(* The handlers.                                                           *)
(***************************************************************************)
SetAmount(s) ==
    /\ amount' = s
    /\ UNCHANGED <<category, note, editingId, pending>>
    /\ StoreUnchanged /\ ClockUnchanged /\ ListUnchanged

SetCategory(s) ==
    /\ category' = s
    /\ UNCHANGED <<amount, note, editingId, pending>>
    /\ StoreUnchanged /\ ClockUnchanged /\ ListUnchanged

SetNote(s) ==
    /\ note' = s
    /\ UNCHANGED <<amount, category, editingId, pending>>
    /\ StoreUnchanged /\ ClockUnchanged /\ ListUnchanged

\* The filter buttons.  Setting the current value again renders nothing;
\* a new value re-evaluates the memo against the clock.
SetFilter(f) ==
    /\ filter' = f
    /\ filteredExpenses' =
         IF f = filter THEN filteredExpenses ELSE FilterExpenses(expenses, f, now, tz)
    /\ UNCHANGED <<expenses, editingId, pending>>
    /\ StoreUnchanged /\ ClockUnchanged /\ FormUnchanged

\* The submit button runs addExpense while no id is remembered.
AddExpense ==
    /\ editingId = 0
    /\ IF AmountRejected(amount) \/ CategoryRejected(category)
       THEN UNCHANGED pending
       ELSE /\ CanIssue /\ CanInsert
            /\ pending' = Append(pending,
                 Call("insert", 0, ParseFloat(amount).val, Trim(category),
                      NoteParam(note), IsoDate(now)))
    /\ UNCHANGED editingId
    /\ StoreUnchanged /\ ClockUnchanged /\ ListUnchanged /\ FormUnchanged

\* The submit button runs saveEdit while an id is remembered.
SaveEdit ==
    /\ editingId # 0
    /\ IF AmountRejected(amount) \/ CategoryRejected(category) \/ editingId = 0
       THEN UNCHANGED pending
       ELSE /\ CanIssue
            /\ pending' = Append(pending,
                 Call("update", editingId, ParseFloat(amount).val, Trim(category),
                      NoteParam(note), <<>>))
    /\ UNCHANGED editingId
    /\ StoreUnchanged /\ ClockUnchanged /\ ListUnchanged /\ FormUnchanged

\* The cancel button is rendered while an id is remembered.
CancelEdit ==
    /\ editingId # 0
    /\ editingId' = 0
    /\ amount' = <<>> /\ category' = <<>> /\ note' = <<>>
    /\ UNCHANGED pending
    /\ StoreUnchanged /\ ClockUnchanged /\ ListUnchanged

\* The delete mark of a rendered row.
DeleteExpense(item) ==
    /\ CanIssue
    /\ pending' = Append(pending, DeleteCall(item.id))
    /\ UNCHANGED editingId
    /\ StoreUnchanged /\ ClockUnchanged /\ ListUnchanged /\ FormUnchanged

\* The edit mark of a rendered row.
StartEditing(item) ==
    /\ editingId' = item.id
    /\ amount' = NumberToString(item.amount)
    /\ category' = item.category
    /\ note' = IF item.note = Null THEN <<>> ELSE item.note[1]
    /\ UNCHANGED pending
    /\ StoreUnchanged /\ ClockUnchanged /\ ListUnchanged

Rendered == {filteredExpenses[i] : i \in 1..Len(filteredExpenses)}

(***************************************************************************)
(* The store settles a call and the awaiting handler runs on: the          *)
(* statement takes effect and the code after the await executes, up to     *)
(* the next await.  Calls in flight settle in any order.  A statement      *)
(* against the table before CREATE TABLE ran is rejected, and the rest of  *)
(* its handler does not run.                                               *)
(***************************************************************************)
\* setup after `await db.execAsync(...)`: `await loadExpenses()`
AfterExec(q) == LoadExpenses(q)

\* addExpense after the INSERT: the form is cleared (below), `loadExpenses()`
AfterInsert(q) == LoadExpenses(q)

\* saveEdit after the UPDATE: state is cleared (below), `await loadExpenses()`
AfterUpdate(q) == LoadExpenses(q)

\* A deleteExpense that does not reload.
AfterDeleteNoReload(q) == q

\* deleteExpense after the DELETE: `loadExpenses()`
AfterDelete(q) == LoadExpenses(q)

SettleExec(i) ==
    /\ pending[i].op = "exec"
    /\ schema' = TRUE
    /\ pending' = AfterExec(RemoveAt(pending, i))
    /\ UNCHANGED <<storage, nextId, editingId>>
    /\ ClockUnchanged /\ ListUnchanged /\ FormUnchanged

\* loadExpenses after the SELECT: setExpenses(rows), and the memo follows.
SettleQuery(i) ==
    /\ pending[i].op = "query"
    /\ pending' = RemoveAt(pending, i)
    /\ IF schema
       THEN /\ expenses' = ListAll(storage)
            /\ filteredExpenses' = FilterExpenses(ListAll(storage), filter, now, tz)
       ELSE UNCHANGED <<expenses, filteredExpenses>>
    /\ UNCHANGED <<filter, editingId>>
    /\ StoreUnchanged /\ ClockUnchanged /\ FormUnchanged

SettleInsert(i) ==
    /\ pending[i].op = "insert"
    /\ IF schema
       THEN /\ storage' = InsertRow(storage, nextId, pending[i])
            /\ nextId' = nextId + 1
            /\ amount' = <<>> /\ category' = <<>> /\ note' = <<>>
            /\ pending' = AfterInsert(RemoveAt(pending, i))
       ELSE /\ pending' = RemoveAt(pending, i)
            /\ UNCHANGED <<storage, nextId>>
            /\ FormUnchanged
    /\ UNCHANGED <<schema, editingId>>
    /\ ClockUnchanged /\ ListUnchanged

SettleUpdate(i) ==
    /\ pending[i].op = "update"
    /\ IF schema
       THEN /\ storage' = UpdateRow(storage, pending[i])
            /\ editingId' = 0
            /\ amount' = <<>> /\ category' = <<>> /\ note' = <<>>
            /\ pending' = AfterUpdate(RemoveAt(pending, i))
       ELSE /\ pending' = RemoveAt(pending, i)
            /\ UNCHANGED <<storage, editingId>>
            /\ FormUnchanged
    /\ UNCHANGED <<schema, nextId>>
    /\ ClockUnchanged /\ ListUnchanged

SettleDelete(i) ==
    /\ pending[i].op = "delete"
    /\ IF schema
       THEN /\ storage' = DeleteRow(storage, pending[i].id)
            /\ pending' = AfterDelete(RemoveAt(pending, i))
       ELSE /\ pending' = RemoveAt(pending, i)
            /\ UNCHANGED storage
    /\ UNCHANGED <<schema, nextId, editingId>>
    /\ ClockUnchanged /\ ListUnchanged /\ FormUnchanged

(***************************************************************************)
(* The device clock.  It starts on Sunday 2024-03-31 at 15:00Z and is read *)
(* at half-day steps up to MaxTicks of them later; the next day is a       *)
(* Monday and the first of a month.  The wall clock may be set either way. *)
(***************************************************************************)
ClockStart == DaysFromCivil(2024, 3, 31) * 24 + 15

ClockInstants == {ClockStart + 12 * k : k \in 0..MaxTicks}

TimeZones == {0 - 5, 0, 9}

Tick(t) ==
    /\ t # now
    /\ now' = t
    /\ UNCHANGED <<tz, editingId, pending>>
    /\ StoreUnchanged /\ ListUnchanged /\ FormUnchanged

(***************************************************************************)
(* What the user types, per specification.                                 *)
(***************************************************************************)
AmountInputs == {<<"7">>, <<"9">>}

CategoryInputs == {<<"a">>}

GateAmounts == {<<"x">>, <<"0">>, <<"-", "7">>, <<" ", "7", "x">>}

GateCategories == {<<" ">>, <<" ", "a", " ">>}

GateNotes == {<<" ">>}

Filters == {"All", "Week", "Month"}

(***************************************************************************)
(* The component after its first render and its mount effect: the state    *)
(* hooks hold their initial values and setup has issued CREATE TABLE.      *)
(***************************************************************************)
Mounted(zones) ==
    /\ schema = FALSE
    /\ storage = {}
    /\ nextId = 1
    /\ pending = <<ExecCall>>
    /\ expenses = <<>>
    /\ amount = <<>> /\ category = <<>> /\ note = <<>>
    /\ filter = "All"
    /\ editingId = 0
    /\ filteredExpenses = <<>>
    /\ now = ClockStart
    /\ tz \in zones

Settle ==
    \E i \in 1..Len(pending) :
        \/ SettleExec(i)
        \/ SettleQuery(i)
        \/ SettleInsert(i)
        \/ SettleUpdate(i)
        \/ SettleDelete(i)

\* No storage call is in flight.
Idle == pending = <<>>

(***************************************************************************)
(* Spec: every command and every settlement, interleaved freely, on a      *)
(* device in UTC whose clock stands still.                                 *)
(***************************************************************************)
Init == Mounted({0})

Next ==
    \/ \E s \in AmountInputs : SetAmount(s)
    \/ \E s \in CategoryInputs : SetCategory(s)
    \/ AddExpense
    \/ SaveEdit
    \/ CancelEdit
    \/ \E item \in Rendered : DeleteExpense(item)
    \/ \E item \in Rendered : StartEditing(item)
    \/ Settle

Spec == Init /\ [][Next]_vars

(***************************************************************************)
(* SpecGate: the same machine fed the inputs the validation gate is about: *)
(* amounts that are not numbers, zero, negative, or a number followed by   *)
(* other text; blank and padded categories; a blank note.                  *)
(***************************************************************************)
NextGate ==
    \/ \E s \in GateAmounts : SetAmount(s)
    \/ \E s \in GateCategories : SetCategory(s)
    \/ \E s \in GateNotes : SetNote(s)
    \/ AddExpense
    \/ SaveEdit
    \/ CancelEdit
    \/ \E item \in Rendered : DeleteExpense(item)
    \/ \E item \in Rendered : StartEditing(item)
    \/ Settle

SpecGate == Init /\ [][NextGate]_vars

(***************************************************************************)
(* SpecClock: the machine on devices in three time zones, with the clock   *)
(* moving and the selector in use.  Commands are issued one at a time,     *)
(* each when the calls of the one before have settled.                     *)
(***************************************************************************)
InitClock == Mounted(TimeZones)

NextClock ==
    \/ \E s \in {<<"7">>} : SetAmount(s)
    \/ \E s \in CategoryInputs : SetCategory(s)
    \/ \E f \in Filters : SetFilter(f)
    \/ \E t \in ClockInstants : Tick(t)
    \/ Idle /\ AddExpense
    \/ Idle /\ SaveEdit
    \/ CancelEdit
    \/ \E item \in Rendered : Idle /\ DeleteExpense(item)
    \/ \E item \in Rendered : StartEditing(item)
    \/ Settle

SpecClock == InitClock /\ [][NextClock]_vars

(***************************************************************************)
(* SpecLabels: the machine fed two category labels, one of them the name   *)
(* of a property every object inherits.  Commands are issued one at a      *)
(* time.                                                                   *)
(***************************************************************************)
LabelInputs == {<<"a">>, <<"c", "o", "n", "s", "t", "r", "u", "c", "t", "o", "r">>}

NextLabels ==
    \/ \E s \in {<<"7">>} : SetAmount(s)
    \/ \E s \in LabelInputs : SetCategory(s)
    \/ Idle /\ AddExpense
    \/ \E item \in Rendered : Idle /\ DeleteExpense(item)
    \/ Settle

SpecLabels == Init /\ [][NextLabels]_vars

(***************************************************************************)
(* The claims.                                                             *)
(***************************************************************************)
Last(q) == q[Len(q)]

\* The calendar day a row's date names.
DayOf(e) == ParseIsoDate(e.date) \div 24

\* C1: when the amount field does not parse to a number above zero, or the
\* category field trims to empty, a press of the submit button (addExpense
\* or saveEdit) issues no storage call and leaves the table, the form
\* fields and the remembered id as they were.
C1_RejectedSubmitIsNoOp ==
    [][ ( /\ AddExpense \/ SaveEdit
          /\ \/ ParseFloat(amount).nan
             \/ ParseFloat(amount).val <= 0
             \/ Trim(category) = <<>> )
        => UNCHANGED <<pending, schema, storage, nextId,
                       amount, category, note, editingId>> ]_vars

\* A stored row is being edited, the amount field reads as a number that is
\* not above zero and the category is filled in: saveEdit is the command of
\* the submit button and the gate is what stops it.
C1_Witness ==
    /\ editingId \in Ids(storage)
    /\ ~ParseFloat(amount).nan
    /\ ParseFloat(amount).val <= 0
    /\ Trim(category) # <<>>

\* C2: every row of the table has an amount above zero and a category that
\* is not empty after trimming.
C2_StoredRowsValid ==
    \A r \in storage : r.amount > 0 /\ Trim(r.category) # <<>>

\* Two rows are stored and an UPDATE of one of them is in flight.
C2_Witness ==
    /\ Cardinality(storage) = 2
    /\ \E i \in 1..Len(pending) :
           pending[i].op = "update" /\ pending[i].id \in Ids(storage)

\* C3: once no storage call is in flight, the in-memory list is what
\* list_all() returns from the table.
C3_CacheCoherent ==
    pending = <<>> => expenses = ListAll(storage)

\* Two rows were inserted, one was deleted, and every call has settled.
C3_Witness ==
    /\ pending = <<>>
    /\ nextId = 3
    /\ Cardinality(storage) = 1

\* C4: at most one storage call is in flight at any moment: a command starts
\* its storage call only when the mutation and the reload before it have
\* settled.
C4_NoOverlap ==
    Len(pending) <= 1

\* C7: saveEdit issues its UPDATE for the remembered id, and the UPDATE of
\* a stored id replaces that row by one with the same id and date and the
\* amount, category and note of the call; the table keeps its size, holds
\* one row of that id, and every other row is as it was.
C7_SaveEditFrame ==
    [][ /\ (SaveEdit /\ pending' # pending) => Last(pending').id = editingId
        /\ \A i \in 1..Len(pending) :
             (SettleUpdate(i) /\ schema /\ pending[i].id \in Ids(storage)) =>
                 \E r \in storage :
                     /\ r.id = pending[i].id
                     /\ storage' = (storage \ {r}) \cup
                            {[id |-> r.id, date |-> r.date,
                              amount |-> pending[i].amount,
                              category |-> pending[i].category,
                              note |-> pending[i].note]}
                     /\ Cardinality(storage') = Cardinality(storage)
                     /\ Cardinality({x \in storage' : x.id = r.id}) = 1 ]_vars

\* Two rows are stored, and one of them has an amount the in-memory list
\* does not show yet: an UPDATE has settled and its reload has not.
C7_Witness ==
    /\ Cardinality(storage) = 2
    /\ \E r \in storage : \E i \in 1..Len(expenses) :
           /\ expenses[i].id = r.id
           /\ expenses[i].amount # r.amount
           /\ expenses[i].date = r.date

\* C10: an UPDATE or a DELETE whose id is not in the table leaves the table
\* and the id counter as they were, and is not rejected: its handler runs
\* on to the reload.
C10_MissingTargetNoOp ==
    [][ \A i \in 1..Len(pending) :
          ( /\ SettleUpdate(i) \/ SettleDelete(i)
            /\ schema
            /\ pending[i].id \notin Ids(storage) )
          => /\ storage' = storage
             /\ nextId' = nextId
             /\ pending' = LoadExpenses(RemoveAt(pending, i)) ]_vars

\* The UPDATE of saveEdit is in flight for the remembered id, and the row
\* of that id has been deleted since startEditing.
C10_Witness ==
    /\ schema
    /\ editingId # 0
    /\ editingId \notin Ids(storage)
    /\ \E i \in 1..Len(pending) :
           pending[i].op = "update" /\ pending[i].id = editingId

\* a comes before b by calendar date, later first, then by id, higher first.
ChronoBefore(a, b) ==
    DayOf(a) > DayOf(b) \/ (DayOf(a) = DayOf(b) /\ a.id > b.id)

Chronological(list) ==
    \A i, j \in 1..Len(list) : i < j => ChronoBefore(list[i], list[j])

\* C9: what list_all() returns, and the in-memory list, run from the latest
\* date to the earliest, rows of one date from the highest id to the
\* lowest; the All selector gives the list in that order.
C9_ListOrdered ==
    /\ Chronological(ListAll(storage))
    /\ Chronological(expenses)
    /\ FilterExpenses(expenses, "All", now, tz) = expenses
    /\ filter = "All" => filteredExpenses = expenses

\* The list shows two rows of different dates, the one inserted first on
\* top: the clock was set back between the two inserts.
C9_Witness ==
    /\ filter = "All"
    /\ Len(filteredExpenses) = 2
    /\ filteredExpenses[1].id < filteredExpenses[2].id
    /\ filteredExpenses[1].date # filteredExpenses[2].date

\* C6: the date addExpense binds to its INSERT is the calendar date of the
\* moment of the call, the date the Week and Month selectors take as today.
C6_DateIsToday ==
    [][ (AddExpense /\ pending' # pending) =>
            /\ Last(pending').date = IsoDate(now)
            /\ DayOf(Last(pending')) = LocalDay(now, tz) ]_vars

\* The Monday of the week of a day, Monday being the first day of a week.
MondayOf(day) == day - ((WeekDay(day) + 6) % 7)

\* C5: under the Week selector the filtered list is the rows whose date is
\* one of the seven days, Monday to Sunday, of the week of the current date.
C5_WeekIsCalendarWeek ==
    FilterExpenses(expenses, "Week", now, tz) =
        SelectSeq(expenses,
                  LAMBDA e : /\ DayOf(e) >= MondayOf(LocalDay(now, tz))
                             /\ DayOf(e) <= MondayOf(LocalDay(now, tz)) + 6)

RECURSIVE SumAmounts(_)
SumAmounts(list) ==
    IF list = <<>> THEN 0 ELSE Head(list).amount + SumAmounts(Tail(list))

CategoryLabel(e) == IF e.category = <<>> THEN Uncategorized ELSE e.category

\* C8: the category totals have one entry per category of the filtered
\* list, its value the sum of the amounts of the rows of that category,
\* and no entry exactly when the filtered list is empty.
C8_TotalsPerCategory ==
    LET totals == CategoryTotals(filteredExpenses)
        labels == {CategoryLabel(filteredExpenses[i]) : i \in 1..Len(filteredExpenses)}
    IN  /\ DOMAIN totals = labels
        /\ \A c \in labels :
               totals[c] = [num |-> TRUE,
                            val |-> SumAmounts(SelectSeq(filteredExpenses,
                                                         LAMBDA e : CategoryLabel(e) = c))]
        /\ (DOMAIN totals = {}) <=> (filteredExpenses = <<>>)

====
